---- MODULE Spec2Model ----
(***************************************************************************)
(* Model of ApiClient (src/src/blueairClient.ts, the axios-based class):   *)
(* the session fields _endpoint/_authToken, the two-step initialize(),     *)
(* the gateway operations and the retry() wrapper around every network     *)
(* call.  Every await of the code is a point where another call of the     *)
(* same event loop may run: a request in flight ("await") and the          *)
(* setTimeout between two attempts ("delay").                              *)
(***************************************************************************)
EXTENDS Integers, Sequences, FiniteSets, TLC

VARIABLES session, calls, owner, budget, committed

vars == <<session, calls, owner, budget, committed>>

(***************************************************************************)
(* JavaScript values.  null and undefined are kept apart because the code  *)
(* compares with === null.                                                 *)
(***************************************************************************)
NULL == "null"
UNDEFINED == "undefined"

\* !x of JavaScript on a string | null | undefined
Truthy(v) == v \notin {NULL, UNDEFINED, ""}

\* default value of retry's parameter `retries`
DefaultRetries == 3

\* largest `retries` handed to retry() when it is exercised on its own
MaxRetries == 4

\* how many calls the caller starts in one run, one after the other
MaxCalls == 4

\* how many calls two callers start in one run, overlapping
MaxOverlap == 2

\* how many setter calls a run of the argument checks starts
MaxValidate == 1

\* how many getDevices() calls a caller makes one after the other
MaxSequential == 2

Clients == {"client1", "client2"}
CallIds == {"a", "b"}

\* what the backend can hand out
Hosts == {"h1", "h2"}
Tokens == {"t1", "t2"}

(***************************************************************************)
(* HTTP responses.  status 0 stands for "no response" (network failure:    *)
(* error.response is undefined).  data is the decoded body, kind says      *)
(* what typeof/JSON.parse make of it, token is the x-auth-token header.    *)
(***************************************************************************)
Response(status, data, kind, token) ==
    [status |-> status, data |-> data, kind |-> kind, token |-> token]

\* axios rejects when there is no response or the status is outside 2xx
AxiosFails(resp) == resp.status < 200 \/ resp.status > 299

\* error.message of an AxiosError
AxiosMessage(resp) ==
    IF resp.status = 0 THEN "Network Error"
    ELSE "Request failed with status code " \o ToString(resp.status)

\* error.response?.status
ResponseStatus(resp) ==
    IF resp.status = 0 THEN UNDEFINED ELSE ToString(resp.status)

\* response?.data.message (the backend's error bodies are {message: ...})
ResponseMessage(resp) ==
    IF resp.status = 0 THEN UNDEFINED ELSE resp.data

DiscoveryResponses ==
    {Response(200, h, "string", UNDEFINED) : h \in Hosts \cup {""}}
    \cup {Response(500, "server error", "object", UNDEFINED),
          Response(0, UNDEFINED, "none", UNDEFINED)}

LoginResponses ==
    {Response(200, "true", "boolean", t) : t \in Tokens \cup {UNDEFINED}}
    \cup {Response(200, "false", "boolean", UNDEFINED),
          Response(204, "", "string", UNDEFINED),
          Response(404, "no such user", "object", UNDEFINED),
          Response(500, "server error", "object", UNDEFINED),
          Response(0, UNDEFINED, "none", UNDEFINED)}

GatewayResponses ==
    {Response(200, "devicesA", "object", UNDEFINED),
     Response(200, "devicesB", "object", UNDEFINED),
     Response(200, "{json}", "string", UNDEFINED),
     Response(200, "not json", "string", UNDEFINED),
     Response(401, "unauthorized", "object", UNDEFINED),
     Response(500, "server error", "object", UNDEFINED),
     Response(0, UNDEFINED, "none", UNDEFINED)}

\* the result of one attempt (one invocation of the function given to retry)
Returned(v) == [threw |-> FALSE, value |-> v]
Threw(e) == [threw |-> TRUE, value |-> e]


(***************************************************************************)
(* The functions handed to retry(): one attempt of each network call,      *)
(* as a function of the response the backend gives to it.                  *)
(***************************************************************************)
determineEndpointAttempt(resp) ==
    IF AxiosFails(resp)
    THEN Threw("Failed to determine endpoint. Message: " \o AxiosMessage(resp))
    ELSE Returned(resp.data)

fetchAuthTokenAttempt(resp) ==
    IF AxiosFails(resp)
    THEN IF resp.status = 404
         THEN Threw("User not found: " \o ResponseMessage(resp))
         ELSE Threw("Failed to fetch auth token. Status: " \o ResponseStatus(resp)
                    \o ". Message: " \o ResponseMessage(resp))
    ELSE IF resp.status = 200
         THEN IF resp.data = "false"
              THEN Threw("User is locked out")
              ELSE Returned(resp.token)
         ELSE Returned(NULL)

\* getDevices without the mapping of status 401
getDevicesAttemptNo401(resp) ==
    IF AxiosFails(resp)
    THEN Threw("Error fetching devices: " \o ResponseStatus(resp))
    ELSE Returned(resp.data)

\* getDevices answering from a list it has kept
getDevicesAttemptCached(resp) ==
    IF AxiosFails(resp)
    THEN IF resp.status = 401
         THEN Threw("Auth token invalid or expired")
         ELSE Threw("Error fetching devices: " \o ResponseStatus(resp))
    ELSE Returned("devicesA")

getDevicesAttempt(resp) ==
    IF AxiosFails(resp)
    THEN IF resp.status = 401
         THEN Threw("Auth token invalid or expired")
         ELSE Threw("Error fetching devices: " \o ResponseStatus(resp))
    ELSE Returned(resp.data)

getDeviceAttributesAttempt(resp) ==
    IF AxiosFails(resp)
    THEN IF resp.status = 401
         THEN Threw("Auth token invalid or expired")
         ELSE Threw("Error fetching attributes: " \o AxiosMessage(resp))
    ELSE Returned(resp.data)

\* JSON.parse on the strings the backend of this model can send
JSONParseFails(text) == text # "{json}"
JSONParse(text) == "json"

\* getDeviceInfo handing the response body on as it came
getDeviceInfoAttemptRaw(resp) ==
    IF AxiosFails(resp)
    THEN Threw("Error fetching device info: " \o AxiosMessage(resp))
    ELSE Returned(resp.data)

getDeviceInfoAttempt(resp) ==
    IF AxiosFails(resp)
    THEN Threw("Error fetching device info: " \o AxiosMessage(resp))
    ELSE IF resp.kind = "object"
         THEN Returned(resp.data)
         ELSE IF JSONParseFails(resp.data)
              THEN Threw("Invalid JSON response")
              ELSE Returned(JSONParse(resp.data))

setFanSpeedAttempt(resp) ==
    IF AxiosFails(resp)
    THEN IF resp.status = 401
         THEN Threw("Auth token invalid or expired")
         ELSE Threw("Error setting fan speed: " \o AxiosMessage(resp))
    ELSE Returned(UNDEFINED)

setFanAutoAttempt(resp) ==
    IF AxiosFails(resp)
    THEN IF resp.status = 401
         THEN Threw("Auth token invalid or expired")
         ELSE Threw("Error setting fan mode: " \o AxiosMessage(resp))
    ELSE Returned(UNDEFINED)

setBrightnessAttempt(resp) ==
    IF AxiosFails(resp)
    THEN IF resp.status = 401
         THEN Threw("Auth token invalid or expired")
         ELSE Threw("Error setting brightness: " \o AxiosMessage(resp))
    ELSE Returned(resp.data)

setChildLockAttempt(resp) ==
    IF AxiosFails(resp)
    THEN IF resp.status = 401
         THEN Threw("Auth token invalid or expired")
         ELSE Threw("Error setting child lock: " \o AxiosMessage(resp))
    ELSE Returned(UNDEFINED)

GatewayOps ==
    {"getDevices", "getDeviceAttributes", "getDeviceInfo",
     "setFanSpeed", "setFanAuto", "setBrightness", "setChildLock"}

Setters == {"setFanSpeed", "setFanAuto", "setBrightness", "setChildLock"}

GatewayAttempt(op, resp) ==
    CASE op = "getDevices" -> getDevicesAttempt(resp)
      [] op = "getDeviceAttributes" -> getDeviceAttributesAttempt(resp)
      [] op = "getDeviceInfo" -> getDeviceInfoAttempt(resp)
      [] op = "setFanSpeed" -> setFanSpeedAttempt(resp)
      [] op = "setFanAuto" -> setFanAutoAttempt(resp)
      [] op = "setBrightness" -> setBrightnessAttempt(resp)
      [] op = "setChildLock" -> setChildLockAttempt(resp)

(***************************************************************************)
(* Argument checks of the setters.  The result is the message of the       *)
(* error thrown, or VALID.                                                 *)
(***************************************************************************)
VALID == "valid"

\* the strings s of this model for which Number(s) is a number
NumericStrings == {"0", "1", "2", "3", "4", "5", "1.0", "-1", " "}

\* isNaN(Number(v)) for a non-empty string v
IsNaNNumber(v) == v \notin NumericStrings

MissingArguments(uuid, currentValue, defaultValue) ==
    ~Truthy(uuid) \/ ~Truthy(currentValue) \/ ~Truthy(defaultValue)

\* setFanSpeed without its legal-set check
setFanSpeedValidateNoLegalSet(uuid, currentValue, defaultValue) ==
    IF MissingArguments(uuid, currentValue, defaultValue)
    THEN "Missing arguments"
    ELSE IF IsNaNNumber(currentValue) \/ IsNaNNumber(defaultValue)
    THEN "Fan speed value must be numeric."
    ELSE VALID

setFanSpeedValidate(uuid, currentValue, defaultValue) ==
    IF MissingArguments(uuid, currentValue, defaultValue)
    THEN "Missing arguments"
    ELSE IF IsNaNNumber(currentValue) \/ IsNaNNumber(defaultValue)
    THEN "Fan speed value must be numeric."
    ELSE IF currentValue \notin {"0", "1", "2", "3"}
            \/ defaultValue \notin {"0", "1", "2", "3"}
    THEN "Invalid fan speed value. Acceptable values are 0, 1, 2, or 3."
    ELSE VALID

\* setFanAuto with the numeric check of the other setters
setFanAutoValidateNumeric(uuid, currentValue, defaultValue) ==
    IF MissingArguments(uuid, currentValue, defaultValue)
    THEN "Missing arguments"
    ELSE IF IsNaNNumber(currentValue) \/ IsNaNNumber(defaultValue)
    THEN "Fan speed value must be numeric."
    ELSE IF currentValue \notin {"auto", "manual"}
            \/ defaultValue \notin {"auto", "manual"}
    THEN "Invalid fan speed value. Acceptable values are manual or auto"
    ELSE VALID

setFanAutoValidate(uuid, currentValue, defaultValue) ==
    IF MissingArguments(uuid, currentValue, defaultValue)
    THEN "Missing arguments"
    ELSE IF currentValue \notin {"auto", "manual"}
            \/ defaultValue \notin {"auto", "manual"}
    THEN "Invalid fan speed value. Acceptable values are manual or auto"
    ELSE VALID

\* setBrightness with its legal-set check ahead of its numeric check
setBrightnessValidateLegalSetFirst(uuid, currentValue, defaultValue) ==
    IF MissingArguments(uuid, currentValue, defaultValue)
    THEN "Missing arguments"
    ELSE IF currentValue \notin {"0", "1", "2", "3", "4"}
            \/ defaultValue \notin {"0", "1", "2", "3", "4"}
    THEN "Invalid brightness value. Acceptable values are 0, 1, 2, 3 or 4."
    ELSE IF IsNaNNumber(currentValue) \/ IsNaNNumber(defaultValue)
    THEN "Brightness value must be numeric."
    ELSE VALID

setBrightnessValidate(uuid, currentValue, defaultValue) ==
    IF MissingArguments(uuid, currentValue, defaultValue)
    THEN "Missing arguments"
    ELSE IF IsNaNNumber(currentValue) \/ IsNaNNumber(defaultValue)
    THEN "Brightness value must be numeric."
    ELSE IF currentValue \notin {"0", "1", "2", "3", "4"}
            \/ defaultValue \notin {"0", "1", "2", "3", "4"}
    THEN "Invalid brightness value. Acceptable values are 0, 1, 2, 3 or 4."
    ELSE VALID

setChildLockValidate(uuid, currentValue, defaultValue) ==
    IF MissingArguments(uuid, currentValue, defaultValue)
    THEN "Missing arguments"
    ELSE IF IsNaNNumber(currentValue) \/ IsNaNNumber(defaultValue)
    THEN "Child lock values must be numeric."
    ELSE IF currentValue \notin {"0", "1"} \/ defaultValue \notin {"0", "1"}
    THEN "Invalid child lock value. Acceptable values are 0 (unlocked) or 1 (locked)."
    ELSE VALID

SetterValidate(op, uuid, currentValue, defaultValue) ==
    CASE op = "setFanSpeed" -> setFanSpeedValidate(uuid, currentValue, defaultValue)
      [] op = "setFanAuto" -> setFanAutoValidate(uuid, currentValue, defaultValue)
      [] op = "setBrightness" -> setBrightnessValidate(uuid, currentValue, defaultValue)
      [] op = "setChildLock" -> setChildLockValidate(uuid, currentValue, defaultValue)

NotInitialized == "Client not initialized or missing endpoint/authToken"

\* the guard `!this.endpoint || !this.authToken` of every gateway operation
SessionMissing(s) == ~Truthy(s.endpoint) \/ ~Truthy(s.authToken)


(***************************************************************************)
(* Calls.  A call slot holds one asynchronous call of a public operation   *)
(* from its start to its result, which stays until the caller starts the   *)
(* next call.  pc: "idle", "await" (an attempt's request is in flight),    *)
(* "delay" (the setTimeout between two attempts) or "done".                *)
(* host and auth are what the call's requests are addressed to and         *)
(* authenticated with; they are fixed when the url and headers are built.  *)
(* The other fields record what happened and are not read by the code:    *)
(* n... count the invocations of fn, the requests sent and the delays      *)
(* started, startReady and pre are the session when the call started,      *)
(* status is the status of the last response received (-1: none yet),      *)
(* sent the requests (url and JSON body) its attempts have posted,         *)
(* requests the host and the credential of every request it has sent,      *)
(* discovered the endpoint the call's own discovery step returned,         *)
(* body its data (for fn: what the attempt settled with), n401 the number  *)
(* of responses with status 401, lastErr                                   *)
(* the error thrown by the latest attempt ("": it has not thrown),         *)
(* firstErr the error thrown by the first attempt of the retry(), and      *)
(* afterAuthInvalid says that the caller started the call right after a    *)
(* call of his that failed with the 401 error.                             *)
(* The variable committed records, for each client, the endpoint and the   *)
(* token of the latest initialize() that returned true (renewed: such a    *)
(* call has been started right after a call that failed with the 401       *)
(* error).                                                                 *)
(***************************************************************************)
Uuids == {"", "uuid1"}
Values == {"", "1", "4", "one", "auto"}

\* argument values for the argument checks: absent, empty, legal for some
\* setter, numeric outside every legal set, not numeric
ValidateValues == {UNDEFINED, "", "0", "1", "4", "5", "1.0", " ", "one", "auto"}

\* inputs for the setters' requests: uuids without and with a reserved
\* character, a value legal for the numeric setters and one for the fan mode
PostUuids == {"uuid1", "a/b"}
PostValues == {"1", "auto"}

\* the optional userId (a number, written as its numeral): left out or given
UserIds == {UNDEFINED, "7"}

DISCOVERY == "api.blueair.io"
BASIC == "Basic base64Credentials"

IdleCall ==
    [op |-> "idle", pc |-> "idle", phase |-> "none",
     uuid |-> "", currentValue |-> "", defaultValue |-> "", userId |-> UNDEFINED,
     fetchUrl |-> <<>>, data |-> {}, sent |-> {}, requests |-> {},
     discovered |-> NULL,
     retries |-> 0, attempt |-> 0, host |-> NULL, auth |-> NULL,
     nInvoked |-> 0, nDiscovery |-> 0, nLogin |-> 0, nGateway |-> 0, nDelay |-> 0,
     outcome |-> "none", value |-> "", status |-> -1, body |-> "", n401 |-> 0,
     afterAuthInvalid |-> FALSE,
     startReady |-> FALSE, pre |-> [endpoint |-> NULL, authToken |-> NULL],
     firstErr |-> "", lastErr |-> ""]

\* a client constructed with the discovery host as its endpoint
NewSessionPreset == [endpoint |-> "api.blueair.io", authToken |-> NULL]

\* a new client: _endpoint = null, _authToken = null
NewSession == [endpoint |-> NULL, authToken |-> NULL]

\* what initialize() calls have committed to a session s so far
Committed(s, renewed) ==
    [endpoint |-> s.endpoint, authToken |-> s.authToken, renewed |-> renewed]

AuthInvalid == "Auth token invalid or expired"

\* the call k has received the response resp to its request in flight
Received(k, resp) ==
    [k EXCEPT !.status = resp.status, !.body = resp.data,
              !.n401 = IF resp.status = 401 THEN @ + 1 ELSE @]

\* the call that ended with k is followed by the call k1 of the same caller
After(k, k1) ==
    [k1 EXCEPT !.afterAuthInvalid = (k.outcome = "threw" /\ k.value = AuthInvalid)]

NewCall(op, uuid, currentValue, defaultValue, s) ==
    [IdleCall EXCEPT !.op = op, !.uuid = uuid, !.currentValue = currentValue,
                     !.defaultValue = defaultValue,
                     !.startReady = ~SessionMissing(s), !.pre = s]

\* the call's promise rejects with error e / resolves with value v
Throws(k, e) == [k EXCEPT !.pc = "done", !.outcome = "threw", !.value = e]
Returns(k, v) == [k EXCEPT !.pc = "done", !.outcome = "returned", !.value = v]

\* initialize() without its catch block
initializeCatchRethrows(k, e) == Throws(k, e)

\* the catch block of initialize(): log and return false
initializeCatch(k, e) == Returns(k, "false")

\* every public operation catching the error the way initialize() does
PropagateSwallowed(k, e) == initializeCatch(k, e)

\* an error leaving retry() travels up to the caller, through initialize's catch
Propagate(k, e) ==
    IF k.op = "initialize" THEN initializeCatch(k, e) ELSE Throws(k, e)

(***************************************************************************)
(* retry(fn, retries = 3, delay = 1000)                                    *)
(***************************************************************************)
RetriesExhausted == "Failed after multiple retries"

\* `return await fn()`: fn starts, its request goes out
Invoke(k) ==
    [k EXCEPT !.pc = "await", !.nInvoked = @ + 1, !.lastErr = "",
              !.nDiscovery = IF k.phase = "determineEndpoint" THEN @ + 1 ELSE @,
              !.nLogin = IF k.phase = "fetchAuthToken" THEN @ + 1 ELSE @,
              !.nGateway = IF k.phase = "gateway" THEN @ + 1 ELSE @,
              !.sent = IF k.phase = "gateway" /\ k.op \in Setters
                       THEN @ \cup {[fetchUrl |-> k.fetchUrl, data |-> k.data]}
                       ELSE @,
              !.requests = @ \cup {[phase |-> k.phase, host |-> k.host,
                                     auth |-> k.auth]}]

\* retry() going on to the next attempt after fn has returned
retryReturnAndGoOn(k, v) == [k EXCEPT !.pc = "delay", !.nDelay = @ + 1]

\* `return await fn()` when fn returns v: retry() returns v at once
retryReturn(k, v) == Returns(k, v)

\* a loop test that leaves the loop one attempt early
retryLoopTestStrict(attempt, retries) == attempt < retries

\* a function fn that builds url and headers from the session at every attempt
fnClosureRereads(k, s) ==
    IF k.phase = "gateway"
    THEN [k EXCEPT !.host = s.endpoint, !.auth = s.authToken]
    ELSE k

\* the function given to retry() closes over the constants url and headers
\* built before retry() was called: the session s at the time of an attempt
\* is not read
fnClosure(k, s) == k

\* the loop test `attempt <= retries`
retryLoopTest(attempt, retries) == attempt <= retries

\* the catch block waiting after the last attempt too
retryCatchTestOffByOne(attempt, retries) == attempt <= retries

\* the test `attempt < retries` of the catch block
retryCatchTest(attempt, retries) == attempt < retries

\* the head of the for loop, and the throw after it
retryLoop(k) ==
    IF retryLoopTest(k.attempt, k.retries)
    THEN Invoke(k)
    ELSE Propagate(k, RetriesExhausted)

\* retry() keeping the first error it saw
retryRethrowFirst(k, e) == k.firstErr

\* which error retry() rethrows when the last attempt failed with e
retryRethrow(k, e) == e

\* a catch block that gives up at once on the 401 error
retryCatchAuthTerminal(k, e) ==
    LET k1 == [k EXCEPT !.lastErr = e,
                        !.firstErr = IF k.nInvoked = 1 THEN e ELSE @]
    IN  IF retryCatchTest(k.attempt, k.retries) /\ e # AuthInvalid
        THEN [k1 EXCEPT !.pc = "delay", !.nDelay = @ + 1]
        ELSE Propagate(k1, retryRethrow(k1, e))

\* the catch block: wait for the delay, or rethrow
retryCatch(k, e) ==
    LET k1 == [k EXCEPT !.lastErr = e,
                        !.firstErr = IF k.nInvoked = 1 THEN e ELSE @]
    IN  IF retryCatchTest(k.attempt, k.retries)
        THEN [k1 EXCEPT !.pc = "delay", !.nDelay = @ + 1]
        ELSE Propagate(k1, retryRethrow(k1, e))

\* retry(fn) called with the default parameters
retry(k, phase) ==
    retryLoop([k EXCEPT !.phase = phase, !.retries = DefaultRetries,
                        !.attempt = 1, !.nInvoked = 0,
                        !.firstErr = "", !.lastErr = ""])

(***************************************************************************)
(* initialize()                                                            *)
(***************************************************************************)
\* fetchAuthToken without its test of the endpoint
fetchAuthTokenNoEndpointCheck(k, endpoint) ==
    retry([k EXCEPT !.host = endpoint, !.auth = BASIC], "fetchAuthToken")

\* fetchAuthToken(endpoint) up to its first request
fetchAuthToken(k, endpoint) ==
    IF ~Truthy(endpoint)
    THEN Propagate(k, "Endpoint is null. Cannot fetch auth token.")
    ELSE retry([k EXCEPT !.host = endpoint, !.auth = BASIC], "fetchAuthToken")

\* `this._endpoint = await this.determineEndpoint()`
initializeEndpoint(s, endpoint) == [s EXCEPT !.endpoint = endpoint]

\* the login reading the endpoint the field held before the assignment
initializeLoginEndpointStale(s, endpoint) == s.endpoint

\* `this.fetchAuthToken(this._endpoint)`: the field is read right after the
\* assignment of line 709, with no await in between
initializeLoginEndpoint(s, endpoint) == initializeEndpoint(s, endpoint).endpoint

\* `if (authTokenResponse === null) return false`
initializeTokenRefused(authTokenResponse) == authTokenResponse = NULL

\* `this._authToken = authTokenResponse`
initializeToken(s, authTokenResponse) == [s EXCEPT !.authToken = authTokenResponse]


(***************************************************************************)
(* The gateway operations up to their first request: the checks, then the  *)
(* headers and the url built from the session, then retry().               *)
(***************************************************************************)
\* headers {"X-AUTH-TOKEN": this.authToken}, url https://${this.endpoint}/...
\* a gateway request authorized with the Basic credentials
GatewayRequestBasic(k, s) ==
    retry([k EXCEPT !.host = s.endpoint, !.auth = BASIC], "gateway")

GatewayRequest(k, s) ==
    retry([k EXCEPT !.host = s.endpoint, !.auth = s.authToken], "gateway")

\* encodeURIComponent on the uuids of this model: "/" is escaped
encodeURIComponent(str) ==
    CASE str = "a/b" -> "a%2Fb"
      [] OTHER -> str

\* the JSON text axios sends for the object obj, as its set of members:
\* JSON.stringify leaves out the properties whose value is undefined
JSONStringify(obj) ==
    {<<key, obj[key]>> : key \in {x \in DOMAIN obj : obj[x] # UNDEFINED}}

setFanSpeedBody(uuid, currentValue, defaultValue, userId) ==
    [userId |-> userId, uuid |-> uuid, scope |-> "device", name |-> "fan_speed",
     currentValue |-> currentValue, defaultValue |-> defaultValue]

setFanSpeedUrl(endpoint, uuid) ==
    <<endpoint, "v2", "device", encodeURIComponent(uuid), "attribute", "fanspeed">>

\* setFanAuto posting under the attribute name of setFanSpeed
setFanAutoBodyFanSpeed(uuid, currentValue, defaultValue, userId) ==
    setFanSpeedBody(uuid, currentValue, defaultValue, userId)

setFanAutoBody(uuid, currentValue, defaultValue, userId) ==
    [userId |-> userId, uuid |-> uuid, scope |-> "device", name |-> "mode",
     currentValue |-> currentValue, defaultValue |-> defaultValue]

setFanAutoUrl(endpoint, uuid) ==
    <<endpoint, "v2", "device", encodeURIComponent(uuid), "attribute", "fanspeed">>

setBrightnessBody(uuid, currentValue, defaultValue, userId) ==
    [userId |-> userId, uuid |-> uuid, scope |-> "device", name |-> "brightness",
     currentValue |-> currentValue, defaultValue |-> defaultValue]

setBrightnessUrl(endpoint, uuid) ==
    <<endpoint, "v2", "device", encodeURIComponent(uuid), "attribute", "brightness">>

setChildLockBody(uuid, currentValue, defaultValue, userId) ==
    [userId |-> userId, uuid |-> uuid, scope |-> "device", name |-> "child_lock",
     currentValue |-> currentValue, defaultValue |-> defaultValue]

setChildLockUrl(endpoint, uuid) ==
    <<endpoint, "v2", "device", encodeURIComponent(uuid), "attribute", "childlock">>

\* a setter up to its first request: fetchUrl and body are built once, the
\* function given to retry() posts them at every attempt
Post(k, s, fetchUrl, body) ==
    GatewayRequest([k EXCEPT !.fetchUrl = fetchUrl, !.data = JSONStringify(body)], s)

\* getDevices guarding on the endpoint alone
getDevicesCallEndpointOnly(s) ==
    LET k == NewCall("getDevices", "", "", "", s)
    IN  IF ~Truthy(s.endpoint) THEN Throws(k, NotInitialized)
        ELSE GatewayRequest(k, s)

getDevicesCall(s) ==
    LET k == NewCall("getDevices", "", "", "", s)
    IN  IF SessionMissing(s) THEN Throws(k, NotInitialized)
        ELSE GatewayRequest(k, s)

getDeviceAttributesCall(s, uuid) ==
    LET k == NewCall("getDeviceAttributes", uuid, "", "", s)
    IN  IF SessionMissing(s) THEN Throws(k, NotInitialized)
        ELSE GatewayRequest(k, s)

\* getDeviceInfo without its uuid check
getDeviceInfoCallNoUuidCheck(s, uuid) ==
    LET k == NewCall("getDeviceInfo", uuid, "", "", s)
    IN  IF SessionMissing(s) THEN Throws(k, NotInitialized)
        ELSE GatewayRequest(k, s)

getDeviceInfoCall(s, uuid) ==
    LET k == NewCall("getDeviceInfo", uuid, "", "", s)
    IN  IF SessionMissing(s) THEN Throws(k, NotInitialized)
        ELSE IF ~Truthy(uuid) THEN Throws(k, "Missing arguments")
        ELSE GatewayRequest(k, s)

setFanSpeedCall(s, uuid, currentValue, defaultValue, userId) ==
    LET k == [NewCall("setFanSpeed", uuid, currentValue, defaultValue, s)
                EXCEPT !.userId = userId]
        v == setFanSpeedValidate(uuid, currentValue, defaultValue)
    IN  IF v # VALID THEN Throws(k, v)
        ELSE IF SessionMissing(s) THEN Throws(k, NotInitialized)
        ELSE Post(k, s, setFanSpeedUrl(s.endpoint, uuid),
                  setFanSpeedBody(uuid, currentValue, defaultValue, userId))

setFanAutoCall(s, uuid, currentValue, defaultValue, userId) ==
    LET k == [NewCall("setFanAuto", uuid, currentValue, defaultValue, s)
                EXCEPT !.userId = userId]
        v == setFanAutoValidate(uuid, currentValue, defaultValue)
    IN  IF v # VALID THEN Throws(k, v)
        ELSE IF SessionMissing(s) THEN Throws(k, NotInitialized)
        ELSE Post(k, s, setFanAutoUrl(s.endpoint, uuid),
                  setFanAutoBody(uuid, currentValue, defaultValue, userId))

setBrightnessCall(s, uuid, currentValue, defaultValue, userId) ==
    LET k == [NewCall("setBrightness", uuid, currentValue, defaultValue, s)
                EXCEPT !.userId = userId]
        v == setBrightnessValidate(uuid, currentValue, defaultValue)
    IN  IF v # VALID THEN Throws(k, v)
        ELSE IF SessionMissing(s) THEN Throws(k, NotInitialized)
        ELSE Post(k, s, setBrightnessUrl(s.endpoint, uuid),
                  setBrightnessBody(uuid, currentValue, defaultValue, userId))

\* setChildLock with the session check ahead of the argument checks
setChildLockCallSessionFirst(s, uuid, currentValue, defaultValue, userId) ==
    LET k == [NewCall("setChildLock", uuid, currentValue, defaultValue, s)
                EXCEPT !.userId = userId]
        v == setChildLockValidate(uuid, currentValue, defaultValue)
    IN  IF SessionMissing(s) THEN Throws(k, NotInitialized)
        ELSE IF v # VALID THEN Throws(k, v)
        ELSE Post(k, s, setChildLockUrl(s.endpoint, uuid),
                  setChildLockBody(uuid, currentValue, defaultValue, userId))

setChildLockCall(s, uuid, currentValue, defaultValue, userId) ==
    LET k == [NewCall("setChildLock", uuid, currentValue, defaultValue, s)
                EXCEPT !.userId = userId]
        v == setChildLockValidate(uuid, currentValue, defaultValue)
    IN  IF v # VALID THEN Throws(k, v)
        ELSE IF SessionMissing(s) THEN Throws(k, NotInitialized)
        ELSE Post(k, s, setChildLockUrl(s.endpoint, uuid),
                  setChildLockBody(uuid, currentValue, defaultValue, userId))

\* a gateway operation that forgets the token when the backend answers 401
gatewaySessionDropsToken(s, r) ==
    IF r.threw /\ r.value = "Auth token invalid or expired"
    THEN [s EXCEPT !.authToken = NULL]
    ELSE s

\* a gateway operation that resets the session when an attempt fails
gatewaySessionResetOnError(s, r) ==
    IF r.threw THEN NewSession ELSE s

\* the session after an attempt of a gateway operation has settled with r:
\* no gateway operation assigns _endpoint or _authToken
gatewaySession(s, r) == s

\* initialize() up to the first discovery request
initializeCall(s) ==
    LET k == NewCall("initialize", "", "", "", s)
    IN  retry([k EXCEPT !.host = DISCOVERY, !.auth = BASIC], "determineEndpoint")

(***************************************************************************)
(* Actions.  c is the slot of the caller, Session(c) the session of the    *)
(* client instance the caller uses, budget the number of calls the         *)
(* callers may still start.                                                *)
(***************************************************************************)
\* every call working on the fields of one and the same instance
ThisShared(c) == "client1"

\* the instance whose fields a call of slot c reads and writes (this)
This(c) == owner[c]

Session(c) == session[This(c)]

\* the caller of slot c has no call in flight and may start one
CanStart(c) == calls[c].pc \in {"idle", "done"} /\ budget > 0

initialize(c) ==
    /\ CanStart(c)
    /\ calls' = [calls EXCEPT ![c] = After(calls[c], initializeCall(Session(c)))]
    /\ budget' = budget - 1
    /\ UNCHANGED <<session, owner, committed>>

getDevices(c) ==
    /\ CanStart(c)
    /\ calls' = [calls EXCEPT ![c] = After(calls[c], getDevicesCall(Session(c)))]
    /\ budget' = budget - 1
    /\ UNCHANGED <<session, owner, committed>>

getDeviceAttributes(c) ==
    /\ CanStart(c)
    /\ \E uuid \in Uuids :
        calls' = [calls EXCEPT ![c] =
                    After(calls[c], getDeviceAttributesCall(Session(c), uuid))]
    /\ budget' = budget - 1
    /\ UNCHANGED <<session, owner, committed>>

getDeviceInfo(c) ==
    /\ CanStart(c)
    /\ \E uuid \in Uuids :
        calls' = [calls EXCEPT ![c] =
                    After(calls[c], getDeviceInfoCall(Session(c), uuid))]
    /\ budget' = budget - 1
    /\ UNCHANGED <<session, owner, committed>>

setFanSpeed(c, U, V, N) ==
    /\ CanStart(c)
    /\ \E uuid \in U, currentValue \in V, defaultValue \in V, userId \in N :
        calls' = [calls EXCEPT ![c] =
                    After(calls[c],
                          setFanSpeedCall(Session(c), uuid, currentValue, defaultValue,
                                      userId))]
    /\ budget' = budget - 1
    /\ UNCHANGED <<session, owner, committed>>

setFanAuto(c, U, V, N) ==
    /\ CanStart(c)
    /\ \E uuid \in U, currentValue \in V, defaultValue \in V, userId \in N :
        calls' = [calls EXCEPT ![c] =
                    After(calls[c],
                          setFanAutoCall(Session(c), uuid, currentValue, defaultValue,
                                      userId))]
    /\ budget' = budget - 1
    /\ UNCHANGED <<session, owner, committed>>

setBrightness(c, U, V, N) ==
    /\ CanStart(c)
    /\ \E uuid \in U, currentValue \in V, defaultValue \in V, userId \in N :
        calls' = [calls EXCEPT ![c] =
                    After(calls[c],
                          setBrightnessCall(Session(c), uuid, currentValue, defaultValue,
                                      userId))]
    /\ budget' = budget - 1
    /\ UNCHANGED <<session, owner, committed>>

setChildLock(c, U, V, N) ==
    /\ CanStart(c)
    /\ \E uuid \in U, currentValue \in V, defaultValue \in V, userId \in N :
        calls' = [calls EXCEPT ![c] =
                    After(calls[c],
                          setChildLockCall(Session(c), uuid, currentValue, defaultValue,
                                      userId))]
    /\ budget' = budget - 1
    /\ UNCHANGED <<session, owner, committed>>

\* the discovery request of an initialize() settles with a response of R
determineEndpointSettles(c, R) ==
    /\ calls[c].pc = "await"
    /\ calls[c].phase = "determineEndpoint"
    /\ \E resp \in R :
        LET k == Received(calls[c], resp)
            r == determineEndpointAttempt(resp)
        IN  IF r.threw
            THEN /\ calls' = [calls EXCEPT ![c] = retryCatch(k, r.value)]
                 /\ UNCHANGED session
            ELSE /\ session' = [session EXCEPT
                                  ![This(c)] = initializeEndpoint(@, r.value)]
                 /\ calls' = [calls EXCEPT ![c] =
                        fetchAuthToken([k EXCEPT !.discovered = r.value],
                                       initializeLoginEndpoint(Session(c), r.value))]
    /\ UNCHANGED <<owner, budget, committed>>

\* the login request of an initialize() settles with a response of R
fetchAuthTokenSettles(c, R) ==
    /\ calls[c].pc = "await"
    /\ calls[c].phase = "fetchAuthToken"
    /\ \E resp \in R :
        LET k == Received(calls[c], resp)
            r == fetchAuthTokenAttempt(resp)
        IN  IF r.threw
            THEN /\ calls' = [calls EXCEPT ![c] = retryCatch(k, r.value)]
                 /\ UNCHANGED <<session, committed>>
            ELSE IF initializeTokenRefused(r.value)
            THEN /\ calls' = [calls EXCEPT ![c] = Returns(k, "false")]
                 /\ UNCHANGED <<session, committed>>
            ELSE /\ session' = [session EXCEPT
                                  ![This(c)] = initializeToken(@, r.value)]
                 /\ calls' = [calls EXCEPT ![c] = Returns(k, "true")]
                 /\ committed' = [committed EXCEPT ![This(c)] =
                        Committed([endpoint |-> k.host, authToken |-> r.value],
                                  @.renewed \/ k.afterAuthInvalid)]
    /\ UNCHANGED <<owner, budget>>

\* the request of a gateway operation settles with a response of R
gatewaySettles(c, R) ==
    /\ calls[c].pc = "await"
    /\ calls[c].phase = "gateway"
    /\ \E resp \in R :
        LET k == Received(calls[c], resp)
            r == GatewayAttempt(k.op, resp)
        IN  /\ calls' = [calls EXCEPT ![c] =
                           IF r.threw THEN retryCatch(k, r.value)
                           ELSE retryReturn(k, r.value)]
            /\ session' = [session EXCEPT ![This(c)] = gatewaySession(@, r)]
    /\ UNCHANGED <<owner, budget, committed>>

\* an attempt counter kept on the client instance, advanced by every call
loopAttemptShared(c) ==
    CHOOSE n \in {calls[d].attempt : d \in {e \in CallIds : owner[e] = owner[c]}} :
        \A d \in {e \in CallIds : owner[e] = owner[c]} : calls[d].attempt <= n

\* `let attempt` of the for loop: a local of the invocation of retry()
loopAttempt(c) == calls[c].attempt

\* a for loop that never advances its counter
loopStepStuck(attempt) == attempt

\* `attempt++` of the for loop
loopStep(attempt) == attempt + 1

\* the setTimeout of retry() fires: attempt++ and back to the loop test
delayElapses(c) ==
    /\ calls[c].pc = "delay"
    /\ calls' = [calls EXCEPT ![c] =
                    retryLoop(fnClosure([calls[c] EXCEPT !.attempt = loopStep(loopAttempt(c))],
                                        Session(c)))]
    /\ UNCHANGED <<session, owner, budget, committed>>

(***************************************************************************)
(* retry() on its own: an operation fn that fails or succeeds as it        *)
(* likes, and any number of retries from 0 to MaxRetries.                  *)
(***************************************************************************)
FnOutcomes ==
    {Returned(v) : v \in {"v1", "v2"}} \cup {Threw(e) : e \in {"e1", "e2", "e3"}}

retryCall(c) ==
    /\ CanStart(c)
    /\ \E retries \in 0..MaxRetries :
        calls' = [calls EXCEPT ![c] =
                    retryLoop([NewCall("fn", "", "", "", Session(c)) EXCEPT
                                 !.phase = "fn", !.retries = retries, !.attempt = 1])]
    /\ budget' = budget - 1
    /\ UNCHANGED <<session, owner, committed>>

fnSettles(c) ==
    /\ calls[c].pc = "await"
    /\ calls[c].phase = "fn"
    /\ \E r \in FnOutcomes :
        LET k == [calls[c] EXCEPT !.body = r.value]
        IN  calls' = [calls EXCEPT ![c] =
                        IF r.threw THEN retryCatch(k, r.value)
                        ELSE retryReturn(k, r.value)]
    /\ UNCHANGED <<session, owner, budget, committed>>

(***************************************************************************)
(* Specifications.                                                         *)
(***************************************************************************)
\* a new client, one caller
Init ==
    /\ session = [cl \in Clients |-> NewSession]
    /\ calls = [c \in CallIds |-> IdleCall]
    /\ owner = [c \in CallIds |-> "client1"]
    /\ budget = MaxCalls
    /\ committed = [cl \in Clients |-> Committed(session[cl], FALSE)]

\* one caller: each call is awaited before the next one starts
Next ==
    \/ initialize("a")
    \/ getDevices("a")
    \/ getDeviceAttributes("a")
    \/ getDeviceInfo("a")
    \/ setFanSpeed("a", Uuids, Values, {UNDEFINED})
    \/ setFanAuto("a", Uuids, Values, {UNDEFINED})
    \/ setBrightness("a", Uuids, Values, {UNDEFINED})
    \/ setChildLock("a", Uuids, Values, {UNDEFINED})
    \/ determineEndpointSettles("a", DiscoveryResponses)
    \/ fetchAuthTokenSettles("a", LoginResponses)
    \/ gatewaySettles("a", GatewayResponses)
    \/ delayElapses("a")

Spec == Init /\ [][Next]_vars

(***************************************************************************)
(* Two callers of one client instance, their calls interleaved at every    *)
(* await.  The client is new or has been initialized before; the backend   *)
(* answers with one of a few responses of each kind.                       *)
(***************************************************************************)
OverlapDiscoveryResponses ==
    {r \in DiscoveryResponses : r.status = 500 \/ r.data \in Hosts}

OverlapLoginResponses ==
    {r \in LoginResponses : r.status = 404 \/ r.token \in Tokens}

OverlapGatewayResponses ==
    {r \in GatewayResponses : r.status = 401 \/ r.data = "devicesA"}

OverlapValues == {"1", "one"}

InitConcurrent ==
    /\ session \in [Clients -> {NewSession, [endpoint |-> "h1", authToken |-> "t1"]}]
    /\ session["client2"] = NewSession
    /\ calls = [c \in CallIds |-> IdleCall]
    /\ owner = [c \in CallIds |-> "client1"]
    /\ budget = MaxOverlap
    /\ committed = [cl \in Clients |-> Committed(session[cl], FALSE)]

NextConcurrent ==
    \E c \in CallIds :
        \/ initialize(c)
        \/ getDevices(c)
        \/ setFanSpeed(c, Uuids, OverlapValues, {UNDEFINED})
        \/ determineEndpointSettles(c, OverlapDiscoveryResponses)
        \/ fetchAuthTokenSettles(c, OverlapLoginResponses)
        \/ gatewaySettles(c, OverlapGatewayResponses)
        \/ delayElapses(c)

SpecConcurrent == InitConcurrent /\ [][NextConcurrent]_vars

(***************************************************************************)
(* One caller making every public call, when every network request is      *)
(* answered or fails and every setTimeout of retry() fires: a step that is *)
(* possible for the call and stays possible is taken in the end.           *)
(***************************************************************************)
InitTerminates ==
    /\ session \in [Clients -> {NewSession, [endpoint |-> "h1", authToken |-> "t1"]}]
    /\ session["client2"] = NewSession
    /\ calls = [c \in CallIds |-> IdleCall]
    /\ owner = [c \in CallIds |-> "client1"]
    /\ budget = MaxSequential
    /\ committed = [cl \in Clients |-> Committed(session[cl], FALSE)]

NextTerminates ==
    \/ initialize("a")
    \/ getDevices("a")
    \/ getDeviceAttributes("a")
    \/ getDeviceInfo("a")
    \/ setFanSpeed("a", Uuids, OverlapValues, {UNDEFINED})
    \/ setFanAuto("a", Uuids, OverlapValues, {UNDEFINED})
    \/ setBrightness("a", Uuids, OverlapValues, {UNDEFINED})
    \/ setChildLock("a", Uuids, OverlapValues, {UNDEFINED})
    \/ determineEndpointSettles("a", OverlapDiscoveryResponses)
    \/ fetchAuthTokenSettles("a", OverlapLoginResponses)
    \/ gatewaySettles("a", OverlapGatewayResponses)
    \/ delayElapses("a")

RequestsAndDelaysComplete ==
    /\ WF_vars(determineEndpointSettles("a", OverlapDiscoveryResponses))
    /\ WF_vars(fetchAuthTokenSettles("a", OverlapLoginResponses))
    /\ WF_vars(gatewaySettles("a", OverlapGatewayResponses))
    /\ WF_vars(delayElapses("a"))

SpecTerminates ==
    InitTerminates /\ [][NextTerminates]_vars /\ RequestsAndDelaysComplete

(***************************************************************************)
(* The setters called with every combination of argument values, on a new  *)
(* client or on one that has been initialized before.                      *)
(***************************************************************************)
InitValidate ==
    /\ session \in [Clients -> {NewSession, [endpoint |-> "h1", authToken |-> "t1"]}]
    /\ session["client2"] = NewSession
    /\ calls = [c \in CallIds |-> IdleCall]
    /\ owner = [c \in CallIds |-> "client1"]
    /\ budget = MaxValidate
    /\ committed = [cl \in Clients |-> Committed(session[cl], FALSE)]

NextValidate ==
    \/ setFanSpeed("a", Uuids, ValidateValues, {UNDEFINED})
    \/ setFanAuto("a", Uuids, ValidateValues, {UNDEFINED})
    \/ setBrightness("a", Uuids, ValidateValues, {UNDEFINED})
    \/ setChildLock("a", Uuids, ValidateValues, {UNDEFINED})
    \/ gatewaySettles("a", OverlapGatewayResponses)
    \/ delayElapses("a")

SpecValidate == InitValidate /\ [][NextValidate]_vars

(***************************************************************************)
(* One caller of an initialized client calls getDevices() again and again, *)
(* each call awaited before the next; the results are kept in slots "a"    *)
(* and "b".  The backend's device list is one of two at each request.      *)
(***************************************************************************)
SequentialGatewayResponses ==
    {r \in GatewayResponses : r.status # 200 \/ r.data \in {"devicesA", "devicesB"}}

InitSequential ==
    /\ session = [cl \in Clients |->
                    IF cl = "client1" THEN [endpoint |-> "h1", authToken |-> "t1"]
                    ELSE NewSession]
    /\ calls = [c \in CallIds |-> IdleCall]
    /\ owner = [c \in CallIds |-> "client1"]
    /\ budget = MaxSequential
    /\ committed = [cl \in Clients |-> Committed(session[cl], FALSE)]

NextSequential ==
    \/ calls["b"].pc \in {"idle", "done"} /\ getDevices("a")
    \/ calls["a"].pc = "done" /\ getDevices("b")
    \/ \E c \in CallIds :
         \/ gatewaySettles(c, SequentialGatewayResponses)
         \/ delayElapses(c)

SpecSequential == InitSequential /\ [][NextSequential]_vars

(***************************************************************************)
(* Two client instances, each with its own caller: slot "a" calls client1, *)
(* slot "b" calls client2, their calls interleaved at every await.         *)
(***************************************************************************)
InitIndependent ==
    /\ session \in [Clients -> {NewSession, [endpoint |-> "h1", authToken |-> "t1"]}]
    /\ session["client2"] = NewSession
    /\ calls = [c \in CallIds |-> IdleCall]
    /\ owner = [c \in CallIds |-> IF c = "a" THEN "client1" ELSE "client2"]
    /\ budget = MaxOverlap
    /\ committed = [cl \in Clients |-> Committed(session[cl], FALSE)]

NextIndependent ==
    \E c \in CallIds :
        \/ initialize(c)
        \/ getDevices(c)
        \/ setFanSpeed(c, Uuids, OverlapValues, {UNDEFINED})
        \/ determineEndpointSettles(c, OverlapDiscoveryResponses)
        \/ fetchAuthTokenSettles(c, OverlapLoginResponses)
        \/ gatewaySettles(c, OverlapGatewayResponses)
        \/ delayElapses(c)

SpecIndependent == InitIndependent /\ [][NextIndependent]_vars

(***************************************************************************)
(* The requests of the setters: an initialized client, uuids with and      *)
(* without a reserved character, the userId given or left out.             *)
(***************************************************************************)
InitPost ==
    /\ session = [cl \in Clients |->
                    IF cl = "client1" THEN [endpoint |-> "h1", authToken |-> "t1"]
                    ELSE NewSession]
    /\ calls = [c \in CallIds |-> IdleCall]
    /\ owner = [c \in CallIds |-> "client1"]
    /\ budget = MaxValidate
    /\ committed = [cl \in Clients |-> Committed(session[cl], FALSE)]

NextPost ==
    \/ setFanSpeed("a", PostUuids, PostValues, UserIds)
    \/ setFanAuto("a", PostUuids, PostValues, UserIds)
    \/ setBrightness("a", PostUuids, PostValues, UserIds)
    \/ setChildLock("a", PostUuids, PostValues, UserIds)
    \/ gatewaySettles("a", GatewayResponses)
    \/ delayElapses("a")

SpecPost == InitPost /\ [][NextPost]_vars

(***************************************************************************)
(* retry() exercised on its own by one caller.                             *)
(***************************************************************************)
NextRetry ==
    \/ retryCall("a")
    \/ fnSettles("a")
    \/ delayElapses("a")

SpecRetry == Init /\ [][NextRetry]_vars


(***************************************************************************)
(* Properties.                                                             *)
(***************************************************************************)
Done(c) == calls[c].pc = "done"

\* the legal values of each setter's currentValue and defaultValue
LegalValues(op) ==
    CASE op = "setFanSpeed" -> {"0", "1", "2", "3"}
      [] op = "setBrightness" -> {"0", "1", "2", "3", "4"}
      [] op = "setChildLock" -> {"0", "1"}
      [] op = "setFanAuto" -> {"auto", "manual"}

\* the messages of the errors each setter's argument checks raise
ValidationMessages(op) ==
    {"Missing arguments"} \cup
    CASE op = "setFanSpeed" ->
           {"Fan speed value must be numeric.",
            "Invalid fan speed value. Acceptable values are 0, 1, 2, or 3."}
      [] op = "setBrightness" ->
           {"Brightness value must be numeric.",
            "Invalid brightness value. Acceptable values are 0, 1, 2, 3 or 4."}
      [] op = "setChildLock" ->
           {"Child lock values must be numeric.",
            "Invalid child lock value. Acceptable values are 0 (unlocked) or 1 (locked)."}
      [] op = "setFanAuto" ->
           {"Invalid fan speed value. Acceptable values are manual or auto"}

\* the setters that check that their values are numeric
NumericSetters == {"setFanSpeed", "setBrightness", "setChildLock"}

\* the message of each numeric setter's "must be numeric" error
NonNumericMessage(op) ==
    CASE op = "setFanSpeed" -> "Fan speed value must be numeric."
      [] op = "setBrightness" -> "Brightness value must be numeric."
      [] op = "setChildLock" -> "Child lock values must be numeric."

\* the message of each setter's error for a value outside the legal set
InvalidValueMessage(op) ==
    CASE op = "setFanSpeed" ->
           "Invalid fan speed value. Acceptable values are 0, 1, 2, or 3."
      [] op = "setBrightness" ->
           "Invalid brightness value. Acceptable values are 0, 1, 2, 3 or 4."
      [] op = "setChildLock" ->
           "Invalid child lock value. Acceptable values are 0 (unlocked) or 1 (locked)."
      [] op = "setFanAuto" ->
           "Invalid fan speed value. Acceptable values are manual or auto"

\* one of the call's three arguments is empty or absent
ArgumentMissing(k) ==
    k.uuid \in {"", UNDEFINED} \/ k.currentValue \in {"", UNDEFINED}
        \/ k.defaultValue \in {"", UNDEFINED}

\* one of the call's two values does not parse as a number
ValueNotNumeric(k) ==
    k.currentValue \notin NumericStrings \/ k.defaultValue \notin NumericStrings

\* one of the call's two values is outside the setter's legal set
ValueNotLegal(k) ==
    k.currentValue \notin LegalValues(k.op) \/ k.defaultValue \notin LegalValues(k.op)

\* the call has started and its argument checks raised no error
PassedValidation(k) ==
    /\ k.op \in Setters
    /\ ~(k.pc = "done" /\ k.outcome = "threw"
            /\ k.value \in ValidationMessages(k.op))

\* uuid is there and both values belong to the setter's legal set
ArgumentsLegal(k) ==
    /\ k.uuid \notin {"", UNDEFINED}
    /\ k.currentValue \in LegalValues(k.op)
    /\ k.defaultValue \in LegalValues(k.op)

\* one of the two values is there and outside the setter's legal set
NonEmptyValueNotLegal(k) ==
    \/ k.currentValue \notin LegalValues(k.op) \cup {"", UNDEFINED}
    \/ k.defaultValue \notin LegalValues(k.op) \cup {"", UNDEFINED}

\* the arguments of the gateway call k pass the operation's local checks
LocalArgumentsOk(k) ==
    CASE k.op \in Setters -> ArgumentsLegal(k)
      [] k.op = "getDeviceInfo" -> k.uuid # ""
      [] OTHER -> TRUE

\* this step starts a gateway call in slot c
StartsGatewayCall(c) ==
    /\ budget' = budget - 1
    /\ calls'[c] # calls[c]
    /\ calls'[c].op \in GatewayOps

\* the attribute name and the last url segment of each setter
AttributeName(op) ==
    CASE op = "setFanSpeed" -> "fan_speed"
      [] op = "setFanAuto" -> "mode"
      [] op = "setBrightness" -> "brightness"
      [] op = "setChildLock" -> "child_lock"

UrlSegment(op) ==
    CASE op = "setFanSpeed" -> "fanspeed"
      [] op = "setFanAuto" -> "fanspeed"
      [] op = "setBrightness" -> "brightness"
      [] op = "setChildLock" -> "childlock"

\* the members of the JSON body a request of the setter call k has to carry
CallerBody(k) ==
    {<<"uuid", k.uuid>>, <<"scope", "device">>, <<"name", AttributeName(k.op)>>,
     <<"currentValue", k.currentValue>>, <<"defaultValue", k.defaultValue>>}
    \cup (IF k.userId = UNDEFINED THEN {} ELSE {<<"userId", k.userId>>})

\* the bodies the backend sends as a string, and those of them that decode
StringBodies == {r.data : r \in {x \in GatewayResponses : x.kind = "string"}}
DecodableBodies == {"{json}"}

\* the errors an operation throws for the HTTP failures other than 401
OwnErrors(op) ==
    {GatewayAttempt(op, r).value :
        r \in {x \in GatewayResponses : AxiosFails(x) /\ x.status # 401}}

\* an initialize() is under way on client cl
Initializing(cl) ==
    \E c \in CallIds :
        owner[c] = cl /\ calls[c].op = "initialize" /\ calls[c].pc # "done"

\* the call ended with the error whose message is m
ThrewMessage(k, m) == k.pc = "done" /\ k.outcome = "threw" /\ k.value = m

\* the call's arguments are missing, non-numeric or outside the legal set
ArgumentsInvalid(k) ==
    \/ k.uuid = ""
    \/ k.currentValue \notin LegalValues(k.op)
    \/ k.defaultValue \notin LegalValues(k.op)

\* C1 as stated: a gateway call sends requests only if endpoint and token
\* were both present when it started, and a call started with either absent
\* fails with the not-initialized error after no request and no delay.
C1_NotInitializedOrNothing ==
    \A c \in CallIds :
        calls[c].op \in GatewayOps =>
            /\ calls[c].nGateway > 0 => calls[c].startReady
            /\ ~calls[c].startReady =>
                /\ Done(c) /\ calls[c].outcome = "threw"
                /\ calls[c].value = NotInitialized
                /\ calls[c].nGateway = 0 /\ calls[c].nDelay = 0

\* C1 amended: a gateway call sends requests only if endpoint and token were
\* both present when it started; a call started with either absent fails at
\* once, after no request and no delay, with the not-initialized error or,
\* for a setter whose arguments fail validation, with the validation error.
C1_NoRequestUnlessReady ==
    \A c \in CallIds :
        calls[c].op \in GatewayOps =>
            /\ calls[c].nGateway > 0 => calls[c].startReady
            /\ ~calls[c].startReady =>
                /\ Done(c) /\ calls[c].outcome = "threw"
                /\ \/ calls[c].value = NotInitialized
                   \/ /\ calls[c].op \in Setters
                      /\ ArgumentsInvalid(calls[c])
                      /\ calls[c].value \in ValidationMessages(calls[c].op)
                /\ calls[c].nInvoked = 0
                /\ calls[c].nGateway = 0 /\ calls[c].nDelay = 0

\* a gateway call was refused while an initialize() of the same client had
\* already stored the endpoint and was waiting for its login request
C1_Witness ==
    \E c, d \in CallIds :
        /\ calls[c].op = "getDevices" /\ Done(c)
        /\ calls[c].value = NotInitialized /\ calls[c].nGateway = 0
        /\ calls[c].pre.endpoint \in Hosts /\ calls[c].pre.authToken = NULL
        /\ calls[d].op = "initialize" /\ calls[d].pc = "await"
        /\ calls[d].phase = "fetchAuthToken"

\* C2: an initialize() that returns false leaves endpoint and token as they
\* were before the call.
C2_FailedInitializeLeavesSession ==
    \A c \in CallIds :
        (calls[c].op = "initialize" /\ Done(c) /\ calls[c].value = "false")
            => Session(c) = calls[c].pre

\* C3: initialize() never throws; it ends with a boolean, which is true only
\* if discovery gave a non-empty endpoint and the last login attempt was
\* answered 200 without throwing, so false whenever either step failed.
C3_InitializeNeverThrows ==
    \A c \in CallIds :
        (calls[c].op = "initialize" /\ Done(c)) =>
            /\ calls[c].outcome = "returned"
            /\ calls[c].value \in {"true", "false"}
            /\ calls[c].value = "true" =>
                /\ calls[c].nDiscovery >= 1 /\ calls[c].nLogin >= 1
                /\ calls[c].host \in Hosts
                /\ calls[c].phase = "fetchAuthToken"
                /\ calls[c].lastErr = "" /\ calls[c].status = 200

\* an initialize() returned false after the account was found locked out
C3_Witness ==
    \E c \in CallIds :
        /\ calls[c].op = "initialize" /\ Done(c)
        /\ calls[c].outcome = "returned" /\ calls[c].value = "false"
        /\ calls[c].lastErr = "User is locked out"

\* C4: whenever initialize() returns true, endpoint and token are both
\* present in the session.
C4_TrueMeansReady ==
    \A c \in CallIds :
        (calls[c].op = "initialize" /\ Done(c) /\ calls[c].value = "true")
            => ~SessionMissing(Session(c))

\* C5 as stated: once an initialize() has succeeded on a client (its token
\* has been assigned), no step changes the client's endpoint or token.
C5_PopulatedOnce ==
    [][\A cl \in Clients :
          session[cl].authToken # NULL => session'[cl] = session[cl]]_vars

\* C5 amended: once an initialize() has succeeded on a client, its endpoint
\* and token are changed only by the steps of a later initialize() on that
\* client, never by a gateway operation.
C5_OnlyInitializeRepopulates ==
    [][\A cl \in Clients :
          (session[cl].authToken # NULL /\ session'[cl] # session[cl]) =>
              \E c \in CallIds :
                  /\ owner[c] = cl
                  /\ calls[c].op = "initialize" /\ calls[c].pc = "await"
                  /\ calls'[c] # calls[c]]_vars

\* a second initialize() succeeded on an initialized client and replaced
\* its token
C5_Witness ==
    \E c \in CallIds :
        /\ calls[c].op = "initialize" /\ Done(c) /\ calls[c].value = "true"
        /\ calls[c].pre.endpoint \in Hosts /\ calls[c].pre.authToken \in Tokens
        /\ Session(c).authToken \in Tokens
        /\ Session(c).authToken # calls[c].pre.authToken

\* C6: once endpoint and token are both present they stay present.
C6_ReadyAbsorbing ==
    [][\A cl \in Clients :
          ~SessionMissing(session[cl]) => ~SessionMissing(session'[cl])]_vars

\* C7: for retries >= 1, a call of retry() whose operation fails every time
\* invokes it exactly `retries` times with exactly retries - 1 delays, one
\* after each failed attempt but the last, and only then throws.
C7_RetryBound ==
    \A c \in CallIds :
        (calls[c].op = "fn" /\ calls[c].retries >= 1) =>
            /\ calls[c].pc = "await" =>
                /\ calls[c].nInvoked = calls[c].nDelay + 1
                /\ calls[c].nInvoked <= calls[c].retries
            /\ calls[c].pc = "delay" =>
                /\ calls[c].nDelay = calls[c].nInvoked
                /\ calls[c].nInvoked < calls[c].retries
            /\ (Done(c) /\ calls[c].outcome = "threw") =>
                /\ calls[c].nInvoked = calls[c].retries
                /\ calls[c].nDelay = calls[c].retries - 1

\* retry() with the default 3 retries gave up after 3 invocations and 2 delays
C7_Witness ==
    \E c \in CallIds :
        /\ calls[c].op = "fn" /\ calls[c].retries = DefaultRetries
        /\ Done(c) /\ calls[c].outcome = "threw"
        /\ calls[c].nInvoked = 3 /\ calls[c].nDelay = 2

\* C8: when all attempts fail, retry() throws the error of the final
\* attempt, unchanged.
C8_FinalErrorUnchanged ==
    \A c \in CallIds :
        (calls[c].op = "fn" /\ calls[c].retries >= 1
         /\ Done(c) /\ calls[c].outcome = "threw") =>
            /\ calls[c].lastErr # ""
            /\ calls[c].value = calls[c].lastErr

\* retry() threw the last error after the first attempt had failed otherwise
C8_Witness ==
    \E c \in CallIds :
        /\ calls[c].op = "fn" /\ Done(c) /\ calls[c].outcome = "threw"
        /\ calls[c].nInvoked = 3
        /\ calls[c].firstErr = "e1" /\ calls[c].lastErr = "e2"
        /\ calls[c].value = "e2"

\* the errors of a login attempt answered 200 false, 404 or another non-2xx
TerminalLoginErrors ==
    {"User is locked out",
     "User not found: no such user",
     "Failed to fetch auth token. Status: 500. Message: server error"}

\* C9: a login attempt answered 200 with body false, 404 or another non-2xx
\* status ends the initialize() after exactly one login request.
C9_LoginFailureNotRetried ==
    \A c \in CallIds :
        (calls[c].op = "initialize" /\ calls[c].lastErr \in TerminalLoginErrors)
            => (Done(c) /\ calls[c].nLogin = 1)

\* C10: a setter whose arguments are missing, non-numeric or outside the
\* legal set throws its validation error after no request, no attempt and no
\* delay, whatever the session.
C10_ValidationPrecedesNetwork ==
    \A c \in CallIds :
        (calls[c].op \in Setters /\ ArgumentsInvalid(calls[c])) =>
            /\ Done(c) /\ calls[c].outcome = "threw"
            /\ calls[c].value \in ValidationMessages(calls[c].op)
            /\ calls[c].nGateway = 0 /\ calls[c].nInvoked = 0
            /\ calls[c].nDelay = 0

\* on an initialized client a setter refused a value outside the legal set
C10_Witness ==
    \E c \in CallIds :
        /\ calls[c].op = "setFanSpeed" /\ calls[c].startReady
        /\ calls[c].uuid = "uuid1" /\ calls[c].currentValue = "4"
        /\ calls[c].defaultValue = "1"
        /\ Done(c) /\ calls[c].nGateway = 0
        /\ calls[c].value
             = "Invalid fan speed value. Acceptable values are 0, 1, 2, or 3."

\* C11: setFanSpeed, setBrightness and setChildLock decide their error in a
\* fixed order: an empty or absent argument gives "Missing arguments";
\* otherwise a value that is not numeric gives the setter's "must be
\* numeric" error, also when the other value is numeric and outside the
\* legal set; otherwise a value outside the legal set gives the setter's
\* invalid-value error.
C11_ValidationOrder ==
    \A c \in CallIds :
        LET k == calls[c]
        IN  k.op \in NumericSetters =>
              /\ ArgumentMissing(k) => ThrewMessage(k, "Missing arguments")
              /\ (~ArgumentMissing(k) /\ ValueNotNumeric(k))
                    => ThrewMessage(k, NonNumericMessage(k.op))
              /\ (~ArgumentMissing(k) /\ ~ValueNotNumeric(k) /\ ValueNotLegal(k))
                    => ThrewMessage(k, InvalidValueMessage(k.op))

\* setFanSpeed with a numeric value outside the legal set and a value that
\* is not numeric ended with the "must be numeric" error
C11_Witness ==
    \E c \in CallIds :
        /\ calls[c].op = "setFanSpeed" /\ calls[c].uuid = "uuid1"
        /\ calls[c].currentValue = "5" /\ calls[c].defaultValue = "one"
        /\ ThrewMessage(calls[c], "Fan speed value must be numeric.")

C13_UnauthorizedAfterAllAttempts ==
    \A c \in CallIds :
        LET k == calls[c]
        IN  k.op = "getDevices" =>
              /\ (Done(c) /\ k.nGateway >= 1 /\ k.n401 = k.nGateway) =>
                    /\ ThrewMessage(k, AuthInvalid)
                    /\ k.nGateway = DefaultRetries
                    /\ k.nDelay = DefaultRetries - 1
              /\ ThrewMessage(k, AuthInvalid) => k.nGateway = DefaultRetries
              /\ (k.pc = "delay" /\ k.n401 = k.nGateway)
                    => k.nGateway < DefaultRetries

\* getDevices() was answered 401 three times and threw the 401 error
C13_Witness ==
    \E c \in CallIds :
        /\ calls[c].op = "getDevices" /\ calls[c].n401 = 3
        /\ calls[c].nGateway = 3 /\ calls[c].nDelay = 2
        /\ ThrewMessage(calls[c], AuthInvalid)

\* C14 as stated: getDeviceInfo with an empty uuid throws "Missing
\* arguments" and sends no request, whether or not the client is
\* initialized.
C14_EmptyUuidIsMissingArguments ==
    \A c \in CallIds :
        (calls[c].op = "getDeviceInfo" /\ calls[c].uuid = "") =>
            /\ ThrewMessage(calls[c], "Missing arguments")
            /\ calls[c].nGateway = 0

\* C14 amended: getDeviceInfo with an empty uuid fails locally, with no
\* request, no attempt and no delay; on an initialized client the error is
\* "Missing arguments", on a client without endpoint or token it is the
\* not-initialized error, because the session is checked first.
C14_EmptyUuidFailsLocally ==
    \A c \in CallIds :
        (calls[c].op = "getDeviceInfo" /\ calls[c].uuid = "") =>
            /\ ThrewMessage(calls[c], IF calls[c].startReady
                                       THEN "Missing arguments"
                                       ELSE NotInitialized)
            /\ calls[c].nGateway = 0 /\ calls[c].nInvoked = 0
            /\ calls[c].nDelay = 0

\* on an initialized client getDeviceInfo("") threw "Missing arguments"
C14_Witness ==
    \E c \in CallIds :
        /\ calls[c].op = "getDeviceInfo" /\ calls[c].uuid = ""
        /\ calls[c].startReady /\ calls[c].nGateway = 0
        /\ ThrewMessage(calls[c], "Missing arguments")

\* C15: every setter checks its arguments before the session: on a client
\* without endpoint or token a setter call with invalid arguments throws
\* its validation error, and only a call with valid arguments throws the
\* not-initialized error; neither sends a request.
C15_ValidationBeforeSession ==
    \A c \in CallIds :
        LET k == calls[c]
        IN  (k.op \in Setters /\ ~k.startReady) =>
              /\ Done(c) /\ k.outcome = "threw" /\ k.nGateway = 0
              /\ ArgumentsLegal(k) => k.value = NotInitialized
              /\ ~ArgumentsLegal(k) => k.value \in ValidationMessages(k.op)

\* on a new client setChildLock with a value outside the legal set threw
\* its invalid-value error, not the not-initialized error
C15_Witness ==
    \E c \in CallIds :
        /\ calls[c].op = "setChildLock" /\ ~calls[c].startReady
        /\ calls[c].uuid = "uuid1"
        /\ calls[c].currentValue = "4" /\ calls[c].defaultValue = "1"
        /\ ThrewMessage(calls[c], InvalidValueMessage("setChildLock"))

\* C16: once an initialize() started after a gateway call failed with the
\* 401 error has returned true, every gateway call started afterwards on
\* that client sends its requests to the endpoint and with the token
\* committed by the latest initialize() that returned true.
C16_RenewedSessionCarried ==
    [][\A c \in CallIds :
          ( /\ StartsGatewayCall(c)
            /\ committed[This(c)].renewed
            /\ LocalArgumentsOk(calls'[c]) )
          => /\ calls'[c].pc = "await"
             /\ calls'[c].host = committed[This(c)].endpoint
             /\ calls'[c].auth = committed[This(c)].authToken]_vars

\* C17: the argument checks and every gateway operation leave the session
\* as it is: at every point of a gateway call, and when it has returned,
\* failed a local check or given up after its last attempt, the client's
\* endpoint and token are those of the moment the call started.
C17_GatewayLeavesSession ==
    \A c \in CallIds :
        calls[c].op \in GatewayOps => Session(c) = calls[c].pre

\* on an initialized client setBrightness gave up after three failed
\* requests and the session is the one it started with
C17_Witness ==
    \E c \in CallIds :
        /\ calls[c].op = "setBrightness" /\ calls[c].startReady
        /\ Done(c) /\ calls[c].outcome = "threw" /\ calls[c].nGateway = 3
        /\ Session(c) = calls[c].pre

\* C18: getDevices() keeps no list: a call that returns, returns the body
\* of the response to its own successful request; so of two calls made one
\* after the other, the second returns the same list as the first when the
\* backend answered both with the same body, and the backend's new list
\* when it answered the second with another body.
C18_ReturnsOwnResponse ==
    /\ \A c \in CallIds :
          (calls[c].op = "getDevices" /\ Done(c) /\ calls[c].outcome = "returned")
              => /\ calls[c].value = calls[c].body
                 /\ calls[c].status = 200 /\ calls[c].nGateway >= 1
    /\ \A c, d \in CallIds :
          ( /\ calls[c].op = "getDevices" /\ calls[d].op = "getDevices"
            /\ Done(c) /\ calls[c].outcome = "returned"
            /\ Done(d) /\ calls[d].outcome = "returned" )
          => (calls[c].value = calls[d].value <=> calls[c].body = calls[d].body)

\* the first call returned one list and the next call, answered with
\* another list, returned that one
C18_Witness ==
    /\ calls["a"].op = "getDevices" /\ Done("a")
    /\ calls["a"].outcome = "returned" /\ calls["a"].value = "devicesA"
    /\ calls["b"].op = "getDevices" /\ Done("b")
    /\ calls["b"].outcome = "returned" /\ calls["b"].value = "devicesB"
    /\ calls["b"].body = "devicesB"

\* C19: initialize() is the only public operation that swallows errors: a
\* call of any other public operation that failed a local check, or whose
\* last attempt failed, ends with that error thrown to the caller; such a
\* call returns a value only when its last attempt was answered 2xx and
\* did not throw.  An initialize() whose last attempt failed returns false.
C19_OnlyInitializeSwallows ==
    \A c \in CallIds :
        LET k == calls[c]
        IN  Done(c) =>
              /\ (k.op \in GatewayOps /\ k.nInvoked = 0) => k.outcome = "threw"
              /\ (k.op \in GatewayOps /\ k.lastErr # "")
                    => (k.outcome = "threw" /\ k.value = k.lastErr)
              /\ (k.op \in GatewayOps /\ k.outcome = "returned")
                    => (k.nGateway >= 1 /\ k.lastErr = "" /\ k.status = 200)
              /\ (k.op = "initialize" /\ k.lastErr # "")
                    => (k.outcome = "returned" /\ k.value = "false")

\* getDeviceAttributes was answered 500 on its third attempt and threw that
\* attempt's error
C19_Witness ==
    \E c \in CallIds :
        /\ calls[c].op = "getDeviceAttributes" /\ Done(c)
        /\ calls[c].nGateway = 3 /\ calls[c].status = 500
        /\ calls[c].outcome = "threw" /\ calls[c].lastErr # ""
        /\ calls[c].value = calls[c].lastErr

\* C20: client instances are independent: a step of a call on one instance
\* changes neither the endpoint nor the token of any other instance; in
\* particular an initialize() that fails on a second instance leaves the
\* first instance's session alone.
C20_InstancesIndependent ==
    [][\A c \in CallIds, cl \in Clients :
          (calls'[c] # calls[c] /\ cl # owner[c])
              => session'[cl] = session[cl]]_vars

\* client1 was initialized by its caller, the initialize() of client2
\* returned false, and client1 still has its endpoint and token
C20_Witness ==
    /\ owner["a"] = "client1" /\ owner["b"] = "client2"
    /\ calls["a"].op = "initialize" /\ Done("a") /\ calls["a"].value = "true"
    /\ calls["b"].op = "initialize" /\ Done("b") /\ calls["b"].value = "false"
    /\ calls["b"].nLogin >= 1
    /\ session["client1"] = [endpoint |-> "h1", authToken |-> "t1"]
    /\ session["client2"] # session["client1"]

\* C21: every request a setter sends carries the caller's uuid, currentValue,
\* defaultValue and userId, which passed the argument checks, with scope
\* "device" and the setter's attribute name, to the url that ends with the
\* setter's segment; all attempts of one call post the same url and body.
C21_SetterRequest ==
    \A c \in CallIds :
        LET k == calls[c]
        IN  k.op \in Setters =>
              /\ k.nGateway = 0 => k.sent = {}
              /\ k.nGateway >= 1 =>
                    /\ ArgumentsLegal(k)
                    /\ k.sent = {[fetchUrl |-> <<k.host, "v2", "device",
                                                encodeURIComponent(k.uuid),
                                                "attribute", UrlSegment(k.op)>>,
                                  data |-> CallerBody(k)]}

\* setFanAuto posted the same body with name "mode" and the caller's userId
\* three times to the fanspeed url of a uuid with a reserved character
C21_Witness ==
    \E c \in CallIds :
        /\ calls[c].op = "setFanAuto" /\ calls[c].nGateway = 3
        /\ calls[c].uuid = "a/b" /\ calls[c].userId = "7"
        /\ calls[c].sent =
             {[fetchUrl |-> <<"h1", "v2", "device", "a%2Fb", "attribute", "fanspeed">>,
               data |-> {<<"userId", "7">>, <<"uuid", "a/b">>, <<"scope", "device">>,
                         <<"name", "mode">>, <<"currentValue", "auto">>,
                         <<"defaultValue", "auto">>}]}

\* C22: on a 2xx response getDeviceInfo returns the body itself when it is
\* an object and the decoded value when it is a string that decodes; an
\* attempt answered with a string that does not decode throws "Invalid JSON
\* response"; a string body is never returned as it came.
C22_DeviceInfoDecoded ==
    \A c \in CallIds :
        LET k == calls[c]
        IN  k.op = "getDeviceInfo" =>
              /\ (Done(c) /\ k.outcome = "returned") =>
                    /\ k.status = 200
                    /\ k.body \notin StringBodies => k.value = k.body
                    /\ k.body \in StringBodies =>
                          (k.body \in DecodableBodies /\ k.value = "json")
                    /\ k.value \notin StringBodies
              /\ (k.pc \in {"delay", "done"} /\ k.status = 200
                    /\ k.body \in StringBodies \ DecodableBodies)
                    => k.lastErr = "Invalid JSON response"
              /\ k.lastErr = "Invalid JSON response"
                    => (k.status = 200 /\ k.body \in StringBodies \ DecodableBodies)

\* getDeviceInfo was answered with a string that decodes and returned the
\* decoded value
C22_Witness ==
    \E c \in CallIds :
        /\ calls[c].op = "getDeviceInfo" /\ Done(c)
        /\ calls[c].outcome = "returned"
        /\ calls[c].body = "{json}" /\ calls[c].value = "json"

\* C23: a client on which no call has been started yet has neither endpoint
\* nor token, and no request has been sent for it: constructing a client
\* assigns null to both fields and sends nothing.
C23_NewClientAbsent ==
    \A cl \in Clients :
        (\A c \in CallIds : owner[c] = cl => calls[c].pc = "idle") =>
            /\ session[cl].endpoint = NULL /\ session[cl].authToken = NULL
            /\ SessionMissing(session[cl])
            /\ \A c \in CallIds :
                  owner[c] = cl =>
                      /\ calls[c].nDiscovery = 0 /\ calls[c].nLogin = 0
                      /\ calls[c].nGateway = 0 /\ calls[c].sent = {}

\* the caller's client has been initialized; the other instance, on which
\* nothing has been called, still has neither endpoint nor token
C23_Witness ==
    /\ calls["a"].op = "initialize" /\ calls["a"].value = "true"
    /\ ~SessionMissing(session["client1"])
    /\ \A c \in CallIds : owner[c] # "client2"
    /\ session["client2"].endpoint = NULL /\ session["client2"].authToken = NULL

\* C24: retry() stops at the first success: when attempt k of fn returns,
\* retry() returns that attempt's value after exactly k invocations and
\* k - 1 delays, and fn is not invoked again for that call.
C24_StopsAtFirstSuccess ==
    [][\A c \in CallIds :
          /\ ( /\ calls[c].op = "fn" /\ calls[c].pc = "await"
               /\ calls'[c] # calls[c] /\ calls'[c].lastErr = "" )
             => (calls'[c].pc = "done" /\ calls'[c].outcome = "returned")
          /\ ( /\ calls'[c].op = "fn" /\ calls'[c].pc = "done"
               /\ calls'[c].outcome = "returned" )
             => /\ calls'[c].value = calls'[c].body
                /\ calls'[c].lastErr = ""
                /\ calls'[c].nInvoked = calls'[c].attempt
                /\ calls'[c].nInvoked \in 1..calls'[c].retries
                /\ calls'[c].nDelay = calls'[c].nInvoked - 1
          /\ (calls[c].op = "fn" /\ Done(c) /\ budget' = budget)
             => calls'[c] = calls[c]]_vars

\* the third attempt returned after two failures: three invocations, two
\* delays, its value returned
C24_Witness ==
    \E c \in CallIds :
        /\ calls[c].op = "fn" /\ Done(c) /\ calls[c].outcome = "returned"
        /\ calls[c].retries = 4 /\ calls[c].nInvoked = 3 /\ calls[c].nDelay = 2
        /\ calls[c].firstErr = "e1" /\ calls[c].value = "v2"

\* C25: retry() does not look at the error: whatever an attempt of a public
\* operation threw (401, 404, 5xx, no response, invalid JSON, locked out),
\* the call waits and tries again while fewer than 3 attempts have been
\* made and gives up only after the third; so a later attempt that is
\* answered 2xx makes the call return, also after a 401.
C25_PolicyNaive ==
    \A c \in CallIds :
        LET k == calls[c]
        IN  k.op \in GatewayOps \cup {"initialize"} =>
              /\ k.lastErr # "" =>
                    \/ k.pc = "delay" /\ k.nInvoked < DefaultRetries
                    \/ Done(c) /\ k.nInvoked = DefaultRetries
                                /\ k.nDelay >= DefaultRetries - 1
              /\ (k.op \in GatewayOps /\ Done(c) /\ k.nGateway >= 1 /\ k.lastErr = "")
                    => k.outcome = "returned"

\* getDevices was answered 401 first and 2xx next, and returned the list
C25_Witness ==
    \E c \in CallIds :
        /\ calls[c].op = "getDevices" /\ Done(c)
        /\ calls[c].firstErr = AuthInvalid /\ calls[c].n401 = 1
        /\ calls[c].nGateway = 2 /\ calls[c].nDelay = 1
        /\ calls[c].outcome = "returned" /\ calls[c].value = "devicesA"

\* C26: every gateway operation (getDevices, getDeviceAttributes,
\* getDeviceInfo, the four setters) turns a response with status 401 into
\* the error "Auth token invalid or expired", and every other HTTP failure
\* into the operation's own error.
C26_UnauthorizedMapped ==
    \A c \in CallIds :
        LET k == calls[c]
        IN  (k.op \in GatewayOps /\ k.nGateway >= 1 /\ k.pc \in {"delay", "done"}) =>
              /\ k.status = 401 => k.lastErr = AuthInvalid
              /\ k.status \in {0, 500} =>
                    (k.lastErr \in OwnErrors(k.op) /\ k.lastErr # AuthInvalid)

\* C27: retry() throws "Failed after multiple retries" if and only if it is
\* called with retries < 1, and then without invoking the operation at all;
\* with retries >= 1, the value every public operation uses, that error is
\* never thrown.
C27_ExhaustedOnlyWithoutRetries ==
    \A c \in CallIds :
        LET k == calls[c]
        IN  /\ ThrewMessage(k, RetriesExhausted) <=> (k.phase # "none" /\ k.retries < 1)
            /\ ThrewMessage(k, RetriesExhausted) => (k.nInvoked = 0 /\ k.nDelay = 0)
            /\ (k.phase # "none" /\ k.op # "fn") => k.retries = DefaultRetries
            /\ k.retries >= 1 => k.value # RetriesExhausted

\* retry() called with retries = 0 threw the generic error without
\* invoking the operation
C27_Witness ==
    \E c \in CallIds :
        /\ calls[c].op = "fn" /\ calls[c].retries = 0
        /\ calls[c].nInvoked = 0
        /\ ThrewMessage(calls[c], RetriesExhausted)

\* C28: inside one initialize() no login request is sent before a discovery
\* request of that call has been answered 2xx with a non-empty endpoint;
\* when discovery fails on all its attempts, or returns an empty endpoint,
\* the call sends no login request at all and returns false.
C28_DiscoveryBeforeLogin ==
    \A c \in CallIds :
        LET k == calls[c]
        IN  k.op = "initialize" =>
              /\ k.nLogin >= 1 =>
                    /\ k.nDiscovery >= 1 /\ k.phase = "fetchAuthToken"
                    /\ Truthy(k.host) /\ k.host # DISCOVERY
              /\ k.phase = "determineEndpoint" => k.nLogin = 0
              /\ (Done(c) /\ k.phase = "determineEndpoint") =>
                    (k.outcome = "returned" /\ k.value = "false")

\* discovery failed three times: initialize() returned false and sent no
\* login request
C28_Witness ==
    \E c \in CallIds :
        /\ calls[c].op = "initialize" /\ Done(c) /\ calls[c].value = "false"
        /\ calls[c].nDiscovery = 3 /\ calls[c].lastErr # ""
        /\ calls[c].nLogin = 0

\* C29: whenever a client has both endpoint and token and no initialize()
\* is under way on it, the token is the one issued by the login request
\* that was sent to the stored endpoint: endpoint and token are those of
\* the latest initialize() that returned true.
C29_PairConsistent ==
    \A cl \in Clients :
        (~SessionMissing(session[cl]) /\ ~Initializing(cl)) =>
            /\ session[cl].endpoint = committed[cl].endpoint
            /\ session[cl].authToken = committed[cl].authToken

\* C30: under every interleaving of initialize() calls on one instance, the
\* login requests of a call go to the endpoint that the call's own
\* discovery step returned, never to an endpoint another call stored.
C30_LoginToOwnEndpoint ==
    \A c \in CallIds :
        (calls[c].op = "initialize" /\ calls[c].nLogin >= 1) =>
            /\ calls[c].discovered \in Hosts
            /\ calls[c].host = calls[c].discovered

\* two initialize() calls of one instance are waiting for their login
\* requests, each sent to its own endpoint, while the instance holds the
\* endpoint of the call that stored last
C30_Witness ==
    \E c, d \in CallIds :
        /\ owner[c] = owner[d]
        /\ calls[c].op = "initialize" /\ calls[c].pc = "await"
        /\ calls[c].nLogin >= 1 /\ calls[c].host = "h1"
        /\ calls[d].op = "initialize" /\ calls[d].pc = "await"
        /\ calls[d].nLogin >= 1 /\ calls[d].host = "h2"
        /\ Session(c).endpoint = "h2"

\* C31: a gateway call reads endpoint and token once, before retry(): all
\* its attempts go to the endpoint and carry the token the client had when
\* the call started, also when an initialize() on the same instance has
\* changed the session while the call was waiting between two attempts.
C31_SessionReadOnce ==
    \A c \in CallIds :
        LET k == calls[c]
        IN  (k.op \in GatewayOps /\ k.nGateway >= 1) =>
              /\ k.requests = {[phase |-> "gateway", host |-> k.pre.endpoint,
                                auth |-> k.pre.authToken]}
              /\ k.host = k.pre.endpoint /\ k.auth = k.pre.authToken

\* getDevices made a further attempt after an initialize() of another
\* caller had replaced endpoint and token, and used the old ones again
C31_Witness ==
    \E c, d \in CallIds :
        /\ calls[c].op = "getDevices" /\ calls[c].nGateway >= 2
        /\ calls[c].pc = "await"
        /\ calls[c].pre = [endpoint |-> "h1", authToken |-> "t1"]
        /\ calls[d].op = "initialize" /\ Done(d) /\ calls[d].value = "true"
        /\ Session(c) = [endpoint |-> "h2", authToken |-> "t2"]
        /\ calls[c].requests = {[phase |-> "gateway", host |-> "h1", auth |-> "t1"]}

\* C32: the retry budget belongs to the call.  Of several gateway calls
\* running at once on one client instance, each counts only its own
\* attempts (never more than `retries`), gives up only after `retries`
\* requests of its own, and ends with what its own last response gives: the
\* failures of another call use up none of its attempts and do not change
\* its result.
C32_BudgetPerCall ==
    \A c \in CallIds :
        LET k == calls[c]
        IN  (k.op \in GatewayOps /\ k.phase = "gateway") =>
              /\ k.retries = DefaultRetries
              /\ k.nGateway <= k.retries
              /\ k.pc \in {"await", "delay"} => k.attempt = k.nGateway
              /\ k.pc = "delay" => k.n401 <= k.nGateway /\ k.nGateway < k.retries
              /\ Done(c) =>
                    /\ k.outcome = "threw" => k.nGateway = k.retries
                    /\ \E resp \in GatewayResponses :
                          /\ resp.status = k.status /\ resp.data = k.body
                          /\ GatewayAttempt(k.op, resp).threw = (k.outcome = "threw")
                          /\ GatewayAttempt(k.op, resp).value = k.value

\* two gateway calls of one client are under way together: one waits
\* after its second failure while the other, also refused twice, has its
\* third request in flight
C32_Witness ==
    \E c, d \in CallIds :
        /\ c # d /\ owner[c] = owner[d]
        /\ calls[c].op = "getDevices" /\ calls[c].pc = "delay"
        /\ calls[c].nGateway = 2 /\ calls[c].n401 = 2
        /\ calls[d].op = "setFanSpeed" /\ calls[d].pc = "await"
        /\ calls[d].nGateway = 3 /\ calls[d].n401 = 2 /\ calls[d].attempt = 3

\* the requests and delays a call may have made so far
WithinRetryLimits(c) ==
    LET k == calls[c]
    IN  /\ k.op \in GatewayOps =>
              /\ k.nGateway <= DefaultRetries
              /\ k.nDelay <= DefaultRetries - 1
              /\ k.nDiscovery = 0 /\ k.nLogin = 0
        /\ k.op = "initialize" =>
              /\ k.nDiscovery <= DefaultRetries
              /\ k.nLogin <= DefaultRetries
              /\ k.nDelay <= 2 * (DefaultRetries - 1)
              /\ k.nGateway = 0
              /\ Done(c) => k.outcome = "returned"

\* C33: every public call ends when each of its requests and delays
\* completes: a call under way is done in the end, a gateway call after at
\* most 3 requests and 2 delays, and initialize(), which returns and never
\* throws, after at most 3 discovery requests, 3 login requests and 4
\* delays.
C33_Terminates ==
    /\ [](\A c \in CallIds : WithinRetryLimits(c))
    /\ \A c \in CallIds : (calls[c].pc \in {"await", "delay"}) ~> Done(c)

\* an initialize() that used all it may use, 3 discovery requests, 3 login
\* requests and 4 delays, has returned false
C33_Witness ==
    \E c \in CallIds :
        /\ calls[c].op = "initialize" /\ Done(c) /\ calls[c].value = "false"
        /\ calls[c].outcome = "returned"
        /\ calls[c].nDiscovery = 3 /\ calls[c].nLogin = 3 /\ calls[c].nDelay = 4

\* C34: the credentials stay with their kind of request.  A discovery
\* request goes to the discovery host and a login request to the endpoint
\* that discovery returned, both with the Basic credentials and never with
\* a token; a gateway request goes to the endpoint the client had stored
\* when the call read it and carries the token stored with it, a token
\* issued by a login and never the Basic credentials.
C34_CredentialsConfined ==
    \A c \in CallIds :
        LET k == calls[c]
        IN  \A q \in k.requests :
              /\ q.phase \in {"determineEndpoint", "fetchAuthToken", "gateway"}
              /\ q.phase = "determineEndpoint" =>
                    /\ k.op = "initialize"
                    /\ q.host = DISCOVERY /\ q.auth = BASIC
              /\ q.phase = "fetchAuthToken" =>
                    /\ k.op = "initialize"
                    /\ q.host = k.discovered /\ q.auth = BASIC
              /\ q.phase = "gateway" =>
                    /\ k.op \in GatewayOps
                    /\ q.host = k.pre.endpoint /\ q.host # DISCOVERY
                    /\ q.auth = k.pre.authToken /\ q.auth \in Tokens
              /\ q.auth = BASIC <=> q.phase # "gateway"
              /\ q.auth \in Tokens <=> q.phase = "gateway"

\* one caller's initialize() has sent its discovery and login requests
\* with the Basic credentials while another caller's getDevices() has sent
\* the stored token to the stored endpoint
C34_Witness ==
    \E c, d \in CallIds :
        /\ calls[c].op = "initialize"
        /\ calls[c].requests =
              {[phase |-> "determineEndpoint", host |-> DISCOVERY, auth |-> BASIC],
               [phase |-> "fetchAuthToken", host |-> "h2", auth |-> BASIC]}
        /\ calls[d].op = "getDevices"
        /\ calls[d].requests = {[phase |-> "gateway", host |-> "h1", auth |-> "t1"]}

====
